---- MODULE Spec2Model ----
(***************************************************************************)
(* A model of uk_weather_osc.py: the Tk application that polls Open-Meteo  *)
(* for a fixed list of cities and republishes the readings over OSC.       *)
(*                                                                         *)
(* Tk runs every callback (button command, key binding, `after` timer) on  *)
(* one thread, from the main loop.  A callback runs to completion before   *)
(* the main loop dispatches the next event, so while _update_cycle is      *)
(* executing (pc = "cycle") no other handler can start.  The cycle is      *)
(* modelled in steps (entry, one step per city, exit) so that the state    *)
(* in the middle of a cycle can be talked about.                           *)
(*                                                                         *)
(* Units: temperatures and wind speeds are in tenths, angles in hundredths *)
(* of a degree, `after` delays in milliseconds.                            *)
(***************************************************************************)
EXTENDS Integers, Sequences, FiniteSets, TLC

VARIABLES
    running,          \* self.running
    refresh_seconds,  \* self.refresh_seconds
    osc_host,         \* self.osc_host (text of the Host entry)
    osc_port,         \* self.osc_port (text of the Port entry)
    status_var,       \* self.status_var
    tree,             \* self.tree: the row shown for each city slug
    dialog,           \* the modal messagebox of start_updates is open
    timers,           \* Tk's pending `after` callbacks to _update_cycle
    pc,               \* "mainloop": waiting for an event; "cycle": in _update_cycle
    caller,           \* what invoked the cycle in progress
    active,           \* _update_cycle frames on the call stack
    osc_client,       \* local of _update_cycle
    errors,           \* local of _update_cycle
    idx,              \* position of the `for city in CITIES` loop
    last_tick,        \* how the latest cycle ended: "none", "done" or "raised"
    fetched,          \* slugs fetched in the current/latest cycle, in order
    processed,        \* slugs whose row was written in the current/latest cycle
    fetch_failed,     \* fetches of the cycle in progress that returned None
    send_failed,      \* send_message calls of the cycle in progress that raised
    resp,             \* what the provider did on the last fetch
    weather,          \* what fetch_city_weather returned (or that it raised)
    attempted,        \* messages handed to send_message for the last city
    unsent,           \* a present field of this cycle was not handed to send_message
    tick_refresh,     \* refresh_seconds as it was when this cycle began
    compass           \* what deg_to_compass returned for the last reading, "" if not called

schedVars == <<running, dialog, timers, pc, caller, active>>
cfgVars   == <<refresh_seconds, osc_host, osc_port>>
uiVars    == <<status_var, tree>>
cycleVars == <<osc_client, errors, idx>>
logVars   == <<last_tick, fetched, processed, fetch_failed, send_failed,
               resp, weather, attempted, unsent, tick_refresh, compass>>
vars      == <<schedVars, cfgVars, uiVars, cycleVars, logVars>>

----------------------------------------------------------------------------
(* Bounds of the model *)

\* how many entries of CITIES the model polls
NumCities == 2
\* how many `after` callbacks may be pending before the operator stops restarting
MaxTimers == 2

----------------------------------------------------------------------------
(* Module constants *)

AllCities ==
    << [name |-> "London",     slug |-> "london"],
       [name |-> "Manchester", slug |-> "manchester"],
       [name |-> "Birmingham", slug |-> "birmingham"],
       [name |-> "Glasgow",    slug |-> "glasgow"],
       [name |-> "Liverpool",  slug |-> "liverpool"],
       [name |-> "Leeds",      slug |-> "leeds"],
       [name |-> "Sheffield",  slug |-> "sheffield"],
       [name |-> "Edinburgh",  slug |-> "edinburgh"],
       [name |-> "Bristol",    slug |-> "bristol"],
       [name |-> "Leicester",  slug |-> "leicester"] >>

CITIES == SubSeq(AllCities, 1, NumCities)

Slugs == {CITIES[i].slug : i \in 1..Len(CITIES)}

DEFAULT_OSC_HOST == "127.0.0.1"
DEFAULT_OSC_PORT == 9000
DEFAULT_REFRESH_SECONDS == 60

----------------------------------------------------------------------------
(* Python values the provider can put in a field of the JSON response *)

None      == [t |-> "none", v |-> 0]
Num(n)    == [t |-> "num",  v |-> n]
Str       == [t |-> "str",  v |-> 0]

NoFields ==
    [temperature_2m |-> None, wind_speed_10m |-> None,
     wind_direction_10m |-> None, time |-> ""]

\* A provider behaviour: requests.get raising ("timeout", as any transport error),
\* raise_for_status raising ("status"), resp.json() raising ("nonjson"), or
\* a decoded JSON document ("json") whose top level is an array or an
\* object, whose "current" member is missing, null or an object, and whose
\* "current" object has the given members (None: member missing or null).
Failure(k) ==
    [kind |-> k, body |-> "none", current |-> "missing", fields |-> NoFields]
Json(b, c, f) ==
    [kind |-> "json", body |-> b, current |-> c, fields |-> f]
Current(temp, wind, dir, time) ==
    Json("object", "object",
         [temperature_2m |-> temp, wind_speed_10m |-> wind,
          wind_direction_10m |-> dir, time |-> time])

ProviderFailures ==
    {Failure("timeout"), Failure("status"), Failure("nonjson")}

MalformedJson ==
    {Json("array", "missing", NoFields),
     Json("object", "missing", NoFields),
     Json("object", "null", NoFields)}

WellFormedJson ==
    {Current(Num(152), Num(94), Num(25000), "2024-01-01T12:00"),
     Current(None, Num(94), Num(34750), "2024-01-01T12:00"),
     Current(Str, Num(94), Num(25000), "2024-01-01T12:00")}

Responses == ProviderFailures \cup MalformedJson \cup WellFormedJson

----------------------------------------------------------------------------
(* fetch_city_weather *)

Raised  == [tag |-> "raise", temperature |-> None, wind_speed |-> None,
            wind_dir |-> None, time |-> ""]
NoneVal == [tag |-> "none", temperature |-> None, wind_speed |-> None,
            wind_dir |-> None, time |-> ""]
Dict(f) == [tag |-> "dict", temperature |-> f.temperature_2m,
            wind_speed |-> f.wind_speed_10m,
            wind_dir |-> f.wind_direction_10m, time |-> f.time]

\* The try block covers the request, the status check and the decoding;
\* data.get and current.get run outside it.
fetch_city_weather(r) ==
    IF r.kind # "json" THEN NoneVal                 \* except Exception: return None
    ELSE IF r.body # "object" THEN Raised           \* data.get: AttributeError
    ELSE IF r.current = "missing" THEN Dict(NoFields) \* default {} of data.get
    ELSE IF r.current # "object" THEN Raised        \* current.get: AttributeError
    ELSE Dict(r.fields)

----------------------------------------------------------------------------
(* deg_to_compass and the row formats *)

\* the table with two of its labels exchanged
dirs_swapped ==
    << "N", "NNW", "NE", "ENE", "E", "ESE", "SE", "SSE",
       "S", "SSW", "SW", "WSW", "W", "WNW", "NW", "NNE" >>

dirs ==
    << "N", "NNE", "NE", "ENE", "E", "ESE", "SE", "SSE",
       "S", "SSW", "SW", "WSW", "W", "WNW", "NW", "NNW" >>

\* int((deg % 360) / 22.5 + 0.5), deg in hundredths of a degree:
\* x / 2250 + 1/2 = (2x + 2250) / 4500, truncated.
compass_idx_truncated(deg) == (deg % 36000) \div 2250
compass_idx(deg) == (2 * (deg % 36000) + 2250) \div 4500

deg_to_compass(d) ==
    IF d = None THEN "?" ELSE dirs[(compass_idx(d.v) % 16) + 1]

Abs(n) == IF n < 0 THEN -n ELSE n

\* f"{x:.1f}" of a value given in tenths
fmt_1f(x) ==
    (IF x < 0 THEN "-" ELSE "") \o ToString(Abs(x) \div 10) \o "."
        \o ToString(Abs(x) % 10)

\* f"{x:.0f}" of a non-negative value given in hundredths: round half to even
fmt_0f(x) ==
    LET q == x \div 100
        r == x % 100
    IN  ToString(IF r > 50 \/ (r = 50 /\ q % 2 = 1) THEN q + 1 ELSE q)

\* the format specs raise ValueError on a str
format_raises(w) ==
    w.wind_dir.t = "str" \/ w.temperature.t = "str" \/ w.wind_speed.t = "str"

dir_str(w) ==
    IF w.wind_dir = None THEN "-"
    ELSE fmt_0f(w.wind_dir.v) \o "° (" \o deg_to_compass(w.wind_dir) \o ")"
temp_str(w) == IF w.temperature = None THEN "-" ELSE fmt_1f(w.temperature.v)
wind_str(w) == IF w.wind_speed = None THEN "-" ELSE fmt_1f(w.wind_speed.v)

Row(c, t, w, d, u) ==
    [city |-> c, temp |-> t, wind |-> w, dir |-> d, updated |-> u]

\* time.strftime of the wall clock, which the model does not follow
CLOCK_HMS == "HH:MM:SS"
CLOCK_ISO == "YYYY-mm-ddTHH:MM:SS"

InitialRow(city) == Row(city.name, "-", "-", "-", "-")
ErrRow(city)     == Row(city.name, "ERR", "ERR", "ERR", CLOCK_HMS)
OkRow(city, w)   ==
    Row(city.name, temp_str(w), wind_str(w), dir_str(w),
        IF w.time # "" THEN w.time ELSE CLOCK_ISO)

----------------------------------------------------------------------------
(* The OSC destination *)

\* text of the Port entry: an integer literal, or text Tcl cannot read as one
IntText(n) == [numeric |-> TRUE,  v |-> n]
OtherText  == [numeric |-> FALSE, v |-> 0]

Hosts       == {DEFAULT_OSC_HOST, "nohost.invalid"}
PortEntries == {IntText(DEFAULT_OSC_PORT), IntText(70000), OtherText}

Resolvable(h) == h = DEFAULT_OSC_HOST
PortInRangeNoUpper(n) == 1 <= n
PortInRange(n) == 1 <= n /\ n <= 65535

NoClient      == [built |-> FALSE, host |-> "", port |-> 0]
Client(h, n)  == [built |-> TRUE, host |-> h, port |-> n]

\* udp_client.SimpleUDPClient(self.osc_host.get(), int(self.osc_port.get())):
\* IntVar.get raises on text that is no integer.  Whether the constructor
\* raises on a host that does not resolve or a port out of range depends on
\* the python-osc release (newer ones resolve the address in the
\* constructor, older ones only on send), so both outcomes are possible.
ClientOutcomes(h, p) ==
    IF ~p.numeric THEN {NoClient}
    ELSE IF Resolvable(h) /\ PortInRange(p.v) THEN {Client(h, p.v)}
    ELSE {NoClient, Client(h, p.v)}

\* what send_message can do on a client: TRUE returns, FALSE raises
SendResults(cl) ==
    IF Resolvable(cl.host) /\ PortInRange(cl.port) THEN {TRUE, FALSE}
    ELSE {FALSE}

Msg(a, x) == [addr |-> a, arg |-> x]

\* the send_message calls of one city in program order, if none raises
Messages(city, w) ==
    LET base == "/ukweather/" \o city.slug
        all  == << <<w.temperature, base \o "/temperature">>,
                   <<w.wind_speed,  base \o "/wind_speed">>,
                   <<w.wind_dir,    base \o "/wind_dir_deg">> >>
        here == SelectSeq(all, LAMBDA e : e[1] # None)
    IN  [i \in 1..Len(here) |-> Msg(here[i][2], here[i][1].v)]

----------------------------------------------------------------------------
(* The refresh scale and Tk's timers *)

\* positions of the scale (from_=10, to=300), in hundredths of a second
ScaleValues == {1050}

\* int(float(value)); Tk always passes the scale position as a float literal,
\* so the except branch is never taken
scale_to_seconds(value) == value \div 100

RefreshValues ==
    {DEFAULT_REFRESH_SECONDS} \cup {scale_to_seconds(x) : x \in ScaleValues}

\* a pending master.after(ms, self._update_cycle); stale: armed before the
\* latest stop_updates (a mark of the model, the program keeps no such flag)
Timer(ms, stale) == [ms |-> ms, stale |-> stale]
TimerKinds == {Timer(r * 1000, b) : r \in RefreshValues, b \in BOOLEAN}

RECURSIVE SumOver(_, _)
SumOver(f, S) ==
    IF S = {} THEN 0
    ELSE LET k == CHOOSE k \in S : TRUE IN f[k] + SumOver(f, S \ {k})

TimerCount == SumOver(timers, TimerKinds)

Arm(ts, ms)   == [ts EXCEPT ![Timer(ms, FALSE)] = @ + 1]
Expire(ts, k) == [ts EXCEPT ![k] = @ - 1]
\* stop_updates leaves the pending callbacks in Tk's queue
AfterStop(ts) ==
    [k \in TimerKinds |->
        IF k.stale THEN ts[k] + ts[Timer(k.ms, FALSE)] ELSE 0]

----------------------------------------------------------------------------
(* Initial state: WeatherOSCApp.__init__ and _build_widgets *)

NoResp == Failure("none")

AppConstructed ==
    /\ running = FALSE
    /\ refresh_seconds = DEFAULT_REFRESH_SECONDS
    /\ osc_host = DEFAULT_OSC_HOST
    /\ osc_port = IntText(DEFAULT_OSC_PORT)
    /\ status_var = "Idle. Click Start to begin."
    /\ tree = [s \in Slugs |->
                 InitialRow(CHOOSE c \in {CITIES[i] : i \in 1..Len(CITIES)} :
                                c.slug = s)]
    /\ dialog = FALSE
    /\ timers = [k \in TimerKinds |-> 0]
    /\ pc = "mainloop"
    /\ caller = "none"
    /\ active = 0
    /\ osc_client = NoClient
    /\ errors = 0
    /\ idx = 0
    /\ last_tick = "none"
    /\ fetched = <<>>
    /\ processed = <<>>
    /\ fetch_failed = 0
    /\ send_failed = 0
    /\ weather = NoneVal
    /\ attempted = <<>>
    /\ unsent = FALSE
    /\ tick_refresh = 0
    /\ compass = ""

Init == AppConstructed /\ resp = NoResp

----------------------------------------------------------------------------
(* _update_cycle *)

\* a main loop that dispatched events from inside a callback
MainloopReentered == TRUE

\* the main loop can dispatch an event: no callback is executing
MainloopFree == pc = "mainloop"

\* the operator can reach the widgets: the messagebox holds no grab
InputFree == MainloopFree /\ ~dialog

\* Lines 189-196, reached when self.running is true: build the client and
\* start the loop over CITIES.
UpdateCycleEnter(from, isRunning) ==
    /\ isRunning
    /\ \E cl \in ClientOutcomes(osc_host, osc_port) :
          /\ osc_client' = cl
          /\ status_var' = IF cl = NoClient THEN "OSC error"
                           ELSE IF from = "start" THEN "Running..."
                           ELSE status_var
    /\ errors' = 0
    /\ idx' = 1
    /\ pc' = "cycle"
    /\ caller' = from
    /\ active' = active + 1
    /\ fetched' = <<>>
    /\ processed' = <<>>
    /\ fetch_failed' = 0
    /\ send_failed' = 0
    /\ resp' = NoResp
    /\ weather' = NoneVal
    /\ attempted' = <<>>
    /\ unsent' = FALSE
    /\ tick_refresh' = refresh_seconds
    /\ compass' = ""
    /\ UNCHANGED <<tree, last_tick>>

\* an exception leaves _update_cycle: Tk reports it and the main loop goes on
UpdateCycleRaise ==
    /\ pc' = "mainloop"
    /\ active' = active - 1
    /\ last_tick' = "raised"
    /\ caller' = "none"
    /\ osc_client' = NoClient
    /\ errors' = 0
    /\ idx' = 0
    /\ fetch_failed' = 0
    /\ send_failed' = 0
    /\ attempted' = <<>>
    /\ unsent' = FALSE
    /\ tick_refresh' = 0
    /\ UNCHANGED <<running, dialog, timers, status_var, tree, processed>>

\* the index of the first send that raises, 0 if none does
FirstFailure(res) ==
    IF \A i \in DOMAIN res : res[i] THEN 0
    ELSE CHOOSE i \in DOMAIN res : ~res[i] /\ \A j \in 1..(i-1) : res[j]

\* Lines 198-229: one iteration of `for city in CITIES`
UpdateCycleCity ==
    /\ pc = "cycle"
    /\ idx \in 1..Len(CITIES)
    /\ \E r \in Responses :
        LET city == CITIES[idx]
            w    == fetch_city_weather(r)
        IN
        /\ resp' = r
        /\ weather' = w
        /\ compass' = IF w.tag = "dict" /\ w.wind_dir.t = "num"   \* line 213
                      THEN deg_to_compass(w.wind_dir) ELSE ""
        /\ fetched' = Append(fetched, city.slug)
        /\ \/ /\ w.tag = "raise"
              /\ UpdateCycleRaise
           \/ /\ w.tag = "none"
              /\ errors' = errors + 1
              /\ fetch_failed' = fetch_failed + 1
              /\ tree' = [tree EXCEPT ![city.slug] = ErrRow(city)]
              /\ processed' = Append(processed, city.slug)
              /\ attempted' = <<>>
              /\ idx' = idx + 1
              /\ UNCHANGED <<schedVars, status_var, osc_client, last_tick,
                             send_failed, unsent, tick_refresh>>
           \/ /\ w.tag = "dict"
              /\ format_raises(w)
              /\ UpdateCycleRaise
           \/ /\ w.tag = "dict"
              /\ ~format_raises(w)
              /\ tree' = [tree EXCEPT ![city.slug] = OkRow(city, w)]
              /\ processed' = Append(processed, city.slug)
              /\ IF osc_client.built
                 THEN LET msgs == Messages(city, w) IN
                      \E res \in [DOMAIN msgs -> SendResults(osc_client)] :
                         LET f == FirstFailure(res) IN
                         /\ attempted' = IF f = 0 THEN msgs
                                         ELSE SubSeq(msgs, 1, f)
                         /\ errors' = IF f = 0 THEN errors ELSE errors + 1
                         /\ send_failed' = IF f = 0 THEN send_failed
                                           ELSE send_failed + 1
                 ELSE /\ attempted' = <<>>
                      /\ UNCHANGED <<errors, send_failed>>
              /\ unsent' = (unsent \/ Len(attempted') < Len(Messages(city, w)))
              /\ idx' = idx + 1
              /\ UNCHANGED <<schedVars, status_var, osc_client, last_tick,
                             fetch_failed, tick_refresh>>
    /\ UNCHANGED cfgVars

\* `for city in CITIES` has run out of cities
LoopDoneEarly == idx >= 1
LoopDone == idx = Len(CITIES) + 1

\* the `after` call of the cycle: lines 236-237
Rearm(ts, isRunning, seconds) ==
    IF isRunning THEN Arm(ts, seconds * 1000) ELSE ts

\* lines 231-234
cycle_status(n) ==
    IF n = 0 THEN "Last update OK at " \o CLOCK_HMS
    ELSE "Update had " \o ToString(n) \o " error(s) at " \o CLOCK_HMS

\* Lines 231-237: the status line and the timer for the next cycle
UpdateCycleExit ==
    /\ pc = "cycle"
    /\ LoopDone
    /\ status_var' = cycle_status(errors)
    /\ timers' = Rearm(timers, running, refresh_seconds)
    /\ pc' = "mainloop"
    /\ active' = active - 1
    /\ last_tick' = "done"
    /\ osc_client' = NoClient
    /\ errors' = 0
    /\ idx' = 0
    /\ caller' = "none"
    /\ fetch_failed' = 0
    /\ send_failed' = 0
    /\ resp' = NoResp
    /\ weather' = NoneVal
    /\ attempted' = <<>>
    /\ unsent' = FALSE
    /\ tick_refresh' = 0
    /\ compass' = ""
    /\ UNCHANGED <<running, dialog, cfgVars, tree, fetched, processed>>

\* Tk runs a pending `after` callback: _update_cycle from line 186
AfterCallback ==
    /\ MainloopFree
    /\ \E k \in TimerKinds :
        /\ timers[k] > 0
        /\ timers' = Expire(timers, k)
        /\ \/ /\ ~running                       \* if not self.running: return
              /\ UNCHANGED <<running, dialog, pc, caller, active, cfgVars,
                             uiVars, cycleVars, logVars>>
           \/ /\ UpdateCycleEnter(IF k.stale THEN "stale_timer" ELSE "timer",
                                  running)
              /\ UNCHANGED <<running, dialog, cfgVars>>

----------------------------------------------------------------------------
(* The operator's commands *)

\* int(self.osc_port.get()) and the range check of lines 165-170
port_valid(p) == p.numeric /\ PortInRange(p.v)

\* start_updates without the test of line 163
start_updates_unguarded ==
    \/ /\ ~port_valid(osc_port)
       /\ dialog' = TRUE
       /\ UNCHANGED <<running, timers, pc, caller, active, cfgVars, uiVars,
                      cycleVars, logVars>>
    \/ /\ port_valid(osc_port)
       /\ TimerCount < MaxTimers
       /\ running' = TRUE
       /\ UpdateCycleEnter("start", running')
       /\ UNCHANGED <<dialog, timers, cfgVars>>

\* start_updates, lines 163-177; the accepted start runs the first cycle
\* from inside the handler
start_updates ==
    \/ /\ running                                \* if self.running: return
       /\ UNCHANGED vars
    \/ /\ ~running
       /\ ~port_valid(osc_port)                  \* messagebox.showerror; return
       /\ dialog' = TRUE
       /\ UNCHANGED <<running, timers, pc, caller, active, cfgVars, uiVars,
                      cycleVars, logVars>>
    \/ /\ ~running
       /\ port_valid(osc_port)
       /\ TimerCount < MaxTimers
       /\ running' = TRUE
       /\ UpdateCycleEnter("start", running')
       /\ UNCHANGED <<dialog, timers, cfgVars>>

\* stop_updates, lines 179-184
stop_updates ==
    \/ /\ ~running                               \* if not self.running: return
       /\ UNCHANGED vars
    \/ /\ running
       /\ running' = FALSE
       /\ status_var' = "Stopped."
       /\ timers' = AfterStop(timers)
       /\ UNCHANGED <<dialog, pc, caller, active, cfgVars, tree, cycleVars,
                      logVars>>

\* the Start button
StartUpdates == InputFree /\ start_updates

\* the Stop button and the Escape key
StopUpdates == InputFree /\ stop_updates

\* the space key: _toggle_start_stop, lines 159-161
ToggleStartStop ==
    /\ InputFree
    /\ IF running THEN stop_updates ELSE start_updates

\* the operator closes the messagebox; start_updates returns
DismissDialog ==
    /\ MainloopFree
    /\ dialog
    /\ dialog' = FALSE
    /\ UNCHANGED <<running, timers, pc, caller, active, cfgVars, uiVars,
                   cycleVars, logVars>>

\* the operator edits the Host entry
SetHost ==
    /\ InputFree
    /\ \E h \in Hosts \ {osc_host} : osc_host' = h
    /\ UNCHANGED <<schedVars, refresh_seconds, osc_port, uiVars, cycleVars,
                   logVars>>

\* the operator edits the Port entry
SetPort ==
    /\ InputFree
    /\ \E p \in PortEntries \ {osc_port} : osc_port' = p
    /\ UNCHANGED <<schedVars, refresh_seconds, osc_host, uiVars, cycleVars,
                   logVars>>

\* _on_refresh_scale_move, lines 155-157
OnRefreshScaleMove ==
    /\ InputFree
    /\ \E value \in ScaleValues : refresh_seconds' = scale_to_seconds(value)
    /\ UNCHANGED <<schedVars, osc_host, osc_port, uiVars, cycleVars, logVars>>

----------------------------------------------------------------------------

Next ==
    \/ StartUpdates
    \/ StopUpdates
    \/ ToggleStartStop
    \/ DismissDialog
    \/ SetHost
    \/ SetPort
    \/ OnRefreshScaleMove
    \/ AfterCallback
    \/ UpdateCycleCity
    \/ UpdateCycleExit

Spec == Init /\ [][Next]_vars

----------------------------------------------------------------------------
(* deg_to_compass on its own: the function applied to one wind direction *)

\* the directions tried: every 1.25 degrees from one turn below zero to two
\* turns above it
MaxTurnSteps == 288

CompassArgs ==
    {Num(k * 125) : k \in (0 - MaxTurnSteps)..(2 * MaxTurnSteps)} \cup {None}

\* a response whose wind_direction_10m is the argument
CompassInit ==
    /\ AppConstructed
    /\ \E d \in CompassArgs : resp = Current(None, None, d, "")

\* deg_to_compass(deg), lines 34-44
DegToCompass ==
    /\ compass = ""
    /\ compass' = deg_to_compass(resp.fields.wind_direction_10m)
    /\ UNCHANGED <<schedVars, cfgVars, uiVars, cycleVars, last_tick, fetched,
                   processed, fetch_failed, send_failed, resp, weather,
                   attempted, unsent, tick_refresh>>

CompassNext == DegToCompass

SpecCompass == CompassInit /\ [][CompassNext]_vars

----------------------------------------------------------------------------
(* Vocabulary of the properties *)

\* the target registry as the sequence of its ids
Registry == [i \in 1..Len(CITIES) |-> CITIES[i].slug]

\* the step ends a cycle, by its last line or by an exception
CycleEnds == pc = "cycle" /\ pc' = "mainloop"

\* the step is one iteration of the loop over CITIES that ran to its end
CityDone == pc = "cycle" /\ pc' = "cycle" /\ idx' = idx + 1

\* the step calls master.after
Arms == TimerCount' > TimerCount

\* provider behaviours that are failures of the fetch: transport error,
\* timeout, non-success status, non-JSON body, JSON without the expected
\* structure
FailedBehaviour(r) == r \in ProviderFailures \cup MalformedJson
ExpectedStructure(r) ==
    r.kind = "json" /\ r.body = "object" /\ r.current = "object"

----------------------------------------------------------------------------
(* Properties *)

\* C1: stop cancels the pending timer: at most one re-arm timer is pending
\* in any state, and a timer armed before a stop never causes a cycle to
\* run, even when start is issued again before it expires.
C1_StopCancelsTimer ==
    /\ TimerCount <= 1
    /\ pc = "cycle" => caller # "stale_timer"

\* C2: a tick never terminates the scheduler loop: no cycle ends by an
\* exception, and there is no state that is Running with no tick in
\* progress and no timer pending.
C2_TickNeverEndsLoop ==
    /\ last_tick # "raised"
    /\ (running /\ pc = "mainloop") => TimerCount >= 1

\* C3: ticks never overlap: at most one cycle run is active, and the timer
\* for the next tick is armed only by the step that ends a cycle whose loop
\* has fetched and presented every target of the registry.
C3_TicksNeverOverlap ==
    [][ /\ active' <= 1
        /\ Arms => /\ CycleEnds
                   /\ active' = 0
                   /\ fetched = Registry
                   /\ processed = Registry
                   /\ TimerCount' = TimerCount + 1 ]_vars

\* a cycle has run to its end and armed the timer for the next one
C3_Witness ==
    /\ pc = "mainloop"
    /\ running
    /\ last_tick = "done"
    /\ processed = Registry
    /\ TimerCount = 1

\* C4: a cycle that has started always finishes presenting all its targets,
\* and while the machine stays Idle nothing is fetched, sent, presented or
\* armed: a timer that expires while Idle does nothing.
C4_StopNeverDiscardsTick ==
    [][ /\ CycleEnds => processed' = Registry
        /\ (~running /\ ~running' /\ pc = "mainloop") =>
              /\ pc' = "mainloop"
              /\ UNCHANGED <<tree, fetched, processed, attempted, cycleVars>>
              /\ ~Arms ]_vars

\* C5: the Fetcher never raises and maps every failure to Failed: after any
\* fetch, the call has returned; it returned None for every failing provider
\* behaviour and the reading only for a response of the expected structure.
C5_FetcherNeverRaises ==
    resp # NoResp =>
        /\ weather.tag # "raise"
        /\ FailedBehaviour(resp) <=> weather = NoneVal
        /\ ExpectedStructure(resp) <=> weather.tag = "dict"

\* C6: failure isolation: in a tick in which a fetch failed, every target
\* is still fetched, and a target fetched after the failure whose outcome is
\* Ok has its row written and its present fields sent.
C6_FailureIsolation ==
    [][ /\ (CycleEnds /\ (fetch_failed > 0 \/ FailedBehaviour(resp')))
              => fetched' = Registry
        /\ (pc = "cycle" /\ fetch_failed > 0 /\ fetched' # fetched
               /\ weather'.tag = "dict")
              => /\ CityDone
                 /\ tree'[CITIES[idx].slug] = OkRow(CITIES[idx], weather')
                 /\ attempted' = Messages(CITIES[idx], weather') ]_vars

\* C7: every tick records exactly one outcome per registry target, in
\* registry order: the targets processed so far are a prefix of the
\* registry, and once a tick has ended they are the whole registry.
C7_OneOutcomePerTarget ==
    /\ pc = "cycle" =>
          /\ fetched = SubSeq(Registry, 1, idx - 1)
          /\ processed = SubSeq(Registry, 1, idx - 1)
    /\ (pc = "mainloop" /\ last_tick # "none") =>
          /\ fetched = Registry
          /\ processed = Registry

\* C8: at the end of every tick the error count is the number of Failed
\* fetches plus the number of failed sends of that tick, and the status is
\* the OK status when that count is 0 and the "N error(s)" status otherwise.
C8_ErrorCount ==
    [][ CycleEnds =>
          /\ errors = fetch_failed + send_failed
          /\ status_var' = cycle_status(fetch_failed + send_failed) ]_vars

\* C9: for every target processed, no message is emitted when the outcome
\* is Failed and exactly one message per present field, under
\* "/ukweather/<target id>/<field name>", when the outcome is Ok.
C9_OneMessagePerPresentField ==
    (pc = "cycle" /\ idx >= 2) =>
        /\ weather.tag = "none" => attempted = <<>>
        /\ weather.tag = "dict" =>
              attempted = Messages(CITIES[idx - 1], weather)

\* C10: a send that fails stops neither the sends of the other present
\* fields of its target nor those of later targets: in a tick with a built
\* destination, every present field of every Ok target is handed to
\* send_message, whether or not an earlier send of the tick failed.
C10_SendFailureIsolation ==
    [][ (CityDone /\ osc_client.built /\ weather'.tag = "dict"
            /\ send_failed' > 0)
          => Len(attempted') = Len(Messages(CITIES[idx], weather')) ]_vars

----------------------------------------------------------------------------
(* What the code does guarantee in the cases above.  These are checked     *)
(* with the properties; they delimit how far each divergence reaches.      *)

\* a fetch that returns None writes the ERR row, counts one error, sends
\* nothing and goes on to the next city
NoneFetchContinues ==
    [][ (pc = "cycle" /\ fetched' # fetched /\ weather'.tag = "none") =>
          /\ CityDone
          /\ tree'[CITIES[idx].slug] = ErrRow(CITIES[idx])
          /\ attempted' = <<>>
          /\ errors' = errors + 1 ]_vars

\* a cycle that reaches its last line has processed the whole registry in
\* order, and its status is that of the Failed fetches plus failed sends
CompletedTickIsWhole ==
    [][ (CycleEnds /\ last_tick' = "done") =>
          /\ fetched' = Registry
          /\ processed' = Registry
          /\ errors = fetch_failed + send_failed
          /\ status_var' = cycle_status(fetch_failed + send_failed) ]_vars

\* the messages handed to send_message for a city are always a prefix of the
\* messages of its present fields: none for an absent field, none twice
AttemptedIsPrefix ==
    (pc = "cycle" /\ idx >= 2) =>
        IF weather.tag = "dict"
        THEN \E n \in 0..Len(Messages(CITIES[idx - 1], weather)) :
                attempted = SubSeq(Messages(CITIES[idx - 1], weather), 1, n)
        ELSE attempted = <<>>

\* while the machine stays Idle no cycle runs, whatever timers expire
IdleDoesNothing ==
    [][ (~running /\ ~running' /\ pc = "mainloop") =>
          /\ pc' = "mainloop"
          /\ UNCHANGED <<tree, fetched, processed, attempted, cycleVars>>
          /\ ~Arms ]_vars

----------------------------------------------------------------------------
(* Properties of the destination, the commands and the configuration *)

\* C11: every failure to transmit is counted: a tick in which some present
\* field of an Ok target was not handed to the transport never ends with
\* error count 0 and the OK status.
C11_UnsentIsCounted ==
    [][ (CycleEnds /\ unsent) =>
          ~(errors = 0 /\ status_var' = cycle_status(0)) ]_vars

C14_StartRunsThenArms ==
    [][ /\ (~running /\ running') =>
             /\ pc' = "cycle" /\ caller' = "start" /\ idx' = 1
             /\ timers' = timers
        /\ CycleEnds =>
             timers' = Arm(timers, refresh_seconds * 1000) ]_vars

\* what holds of C14 in the code: the accepted start enters the cycle
\* directly, and a cycle that reaches line 236 arms exactly the timer of the
\* refresh interval read there
StartRunsFirstCycle ==
    [][ /\ (~running /\ running') =>
             /\ pc' = "cycle" /\ caller' = "start" /\ idx' = 1
             /\ timers' = timers
        /\ (CycleEnds /\ last_tick' = "done") =>
             timers' = Arm(timers, refresh_seconds * 1000)
        /\ Arms => (CycleEnds /\ last_tick' = "done") ]_vars

\* C15: re-entrant commands are no-ops.  No step taken from a Running state
\* has the effect of a start (a cycle begun by the Start command, the
\* "Running..." status or the port dialog), and no step taken from an Idle
\* state has the effect of a stop (the "Stopped." status, a change of the
\* Running flag other than by an accepted start); neither begins a cycle
\* other than a timer's or arms a timer.
C15_ReentrantNoOp ==
    [][ /\ running =>
             /\ caller' = "start" => caller = "start"
             /\ status_var' = "Running..." => status_var = "Running..."
             /\ dialog' => dialog
             /\ pc = "mainloop" /\ pc' = "cycle" =>
                    caller' \in {"timer", "stale_timer"}
        /\ ~running =>
             /\ status_var' = "Stopped." => status_var = "Stopped."
             /\ ~running' => UNCHANGED <<pc, caller, active, uiVars, cycleVars,
                                         logVars>>
             /\ ~Arms ]_vars

\* the machine is Running between two cycles with its timer pending, where
\* the Start button, the space key and the Escape key are all live
C15_Witness ==
    /\ running
    /\ pc = "mainloop" /\ ~dialog
    /\ status_var = cycle_status(0)
    /\ TimerCount = 1
    /\ fetched = Registry

\* C16: each tick works on the configuration as it was when the tick began.
\* The destination is built once, from the host and the port read together
\* in the step that begins the tick, and is the same for every message of the
\* tick; the configuration does not change while the tick runs, and the
\* timer armed at its end has the delay of the refresh interval the tick
\* began with.
C16_ConfigSnapshot ==
    [][ /\ (pc = "mainloop" /\ pc' = "cycle") =>
             osc_client' \in {NoClient, Client(osc_host, osc_port.v)}
        /\ (pc = "cycle" /\ pc' = "cycle") => osc_client' = osc_client
        /\ (pc = "cycle" /\ osc_client.built) =>
             osc_client = Client(osc_host, osc_port.v)
        /\ Arms => timers' = Arm(timers, tick_refresh * 1000) ]_vars

\* a tick runs on a configuration the operator edited before it began: the
\* other host and the shorter interval, with messages already handed over
C16_Witness ==
    /\ pc = "cycle"
    /\ osc_client = Client("nohost.invalid", DEFAULT_OSC_PORT)
    /\ tick_refresh = 10
    /\ idx = Len(CITIES) + 1
    /\ attempted # <<>>

\* C19: readings are never merged with history: the row a target shows and
\* the messages sent for it after a tick depend only on the target's outcome
\* in that tick.  A Failed outcome leaves ERR in the three value columns, an
\* Ok outcome leaves each present field's value and "-" for each absent one,
\* and only present fields of this tick's reading are sent.
C19_NoMergeWithHistory ==
    [][ (pc = "cycle" /\ fetched' # fetched) =>
          LET city == CITIES[idx]
              row  == tree'[city.slug]
          IN  /\ FailedBehaviour(resp') =>
                    /\ row = ErrRow(city)
                    /\ attempted' = <<>>
              /\ (ExpectedStructure(resp')
                    /\ ~format_raises(Dict(resp'.fields))) =>
                    /\ row = OkRow(city, Dict(resp'.fields))
                    /\ \A i \in DOMAIN attempted' :
                         \E j \in DOMAIN Messages(city, Dict(resp'.fields)) :
                            attempted'[i] = Messages(city, Dict(resp'.fields))[j]
        ]_vars

\* what holds of C19 in the code: an iteration that runs to its end writes
\* the whole row from the reading just fetched, whatever the row was
CompletedRowIsLatest ==
    [][ CityDone =>
          LET city == CITIES[idx]
          IN  /\ tree'[city.slug] = IF weather'.tag = "none" THEN ErrRow(city)
                                    ELSE OkRow(city, weather')
              /\ \A s \in Slugs \ {city.slug} : tree'[s] = tree[s] ]_vars

\* C20: the configuration ranges hold for every tick: whatever the operator
\* edited, the port every tick builds its destination from is an integer in
\* 1..65535 and the delay every tick arms is that of a refresh interval in
\* 10..300 seconds.
C20_ConfigRangesEveryTick ==
    [][ /\ (pc = "mainloop" /\ pc' = "cycle") =>
             (osc_port.numeric /\ osc_port.v \in 1..65535)
        /\ Arms =>
             \E seconds \in 10..300 : timers' = Arm(timers, seconds * 1000)
      ]_vars

\* what holds of C20 in the code: the scale keeps the refresh interval in its
\* range, and a cycle begun by the Start command has a valid port
RefreshInRange == refresh_seconds \in 10..300
StartedPortInRange ==
    [][ (pc = "mainloop" /\ pc' = "cycle" /\ caller' = "start") =>
           (osc_port.numeric /\ osc_port.v \in 1..65535) ]_vars

----------------------------------------------------------------------------
(* Properties of deg_to_compass, under SpecCompass *)

\* the argument of the call
CompassArg == resp.fields.wind_direction_10m

\* C17: deg_to_compass returns N for 0, NNE for 22.5, N for 360, N for 347.5
\* and the unknown marker "?" for an absent direction.
C17_CompassExamples ==
    compass # "" =>
        /\ CompassArg = Num(0)     => compass = "N"
        /\ CompassArg = Num(2250)  => compass = "NNE"
        /\ CompassArg = Num(36000) => compass = "N"
        /\ CompassArg = Num(34750) => compass = "N"
        /\ CompassArg = None       => compass = "?"

\* C17, amended: deg_to_compass returns N for 0, NNE for 22.5, N for 360,
\* NNW for 347.5 (N begins at 348.75) and "?" for an absent direction.
C17_CompassExamplesAmended ==
    compass # "" =>
        /\ CompassArg = Num(0)     => compass = "N"
        /\ CompassArg = Num(2250)  => compass = "NNE"
        /\ CompassArg = Num(36000) => compass = "N"
        /\ CompassArg = Num(34750) => compass = "NNW"
        /\ CompassArg = None       => compass = "?"

\* deg_to_compass has been called with 347.5
C17_Witness == CompassArg = Num(34750) /\ compass = "NNW"

\* C18: for every present direction, negative and above one turn included,
\* deg_to_compass returns the table entry at index n mod 16, where n is
\* (deg mod 360) / 22.5 rounded to the nearest integer with halves up; n
\* exists in 0..16, so the index is in 0..15, and the directions of
\* [348.75, 360) wrap to N.
C18_CompassHalfUp ==
    (compass # "" /\ CompassArg # None) =>
        LET m == CompassArg.v % 36000
        IN  /\ \E n \in 0..16 :
                 /\ 2250 * n - 1125 <= m
                 /\ m < 2250 * n + 1125
                 /\ compass = dirs[(n % 16) + 1]
            /\ m >= 34875 => compass = "N"

\* a negative direction on the half-way mark below north: -11.25 is 348.75
\* mod 360, rounds up to index 16 and wraps to N
C18_Witness == CompassArg = Num(0 - 1125) /\ compass = "N"

====
